---- MODULE Spec2Model ----
(***************************************************************************)
(* Model of the submarine agents backend: the crew-thought handler with    *)
(* its fixed-order agent sequencer and fallback (backend/main.py,          *)
(* backend/agents.py) and the bounded, lock-protected ship log.            *)
(*                                                                         *)
(* Text is a sequence of lines, each line a string.  Python's None is the  *)
(* string NoneVal.  The event loop runs one crew-thought request at a time *)
(* (create_crew_thought is an async def that never awaits); the log        *)
(* endpoints are plain defs and run on pool threads, concurrently.         *)
(***************************************************************************)
EXTENDS Integers, Sequences, FiniteSets, TLC

\* ------------------------------------------------------------------ bounds
\* Crew-thought requests handled in one behaviour.
MaxRequests == 1
\* Crew-thought requests in one behaviour of the identity cache.
MaxCacheRequests == 2
\* Direct POST /api/log calls in one behaviour.
MaxAppends == 3
\* The log cap, 2000 in the source (main.py:119), scaled down so that the
\* trimming branch is reached.
_MAX_LOG_ENTRIES == 2

NoneVal == "<None>"

\* --------------------------------------------------------- agents.py data
SUPPORT_SEQUENCE == <<"navigator", "intel", "engineer", "operations", "captain">>

\* The keys of AGENT_DEFINITIONS.
AGENT_DEFINITIONS == {"navigator", "intel", "engineer", "operations", "captain"}

\* str.title() on the role keys that occur.
Title(role) ==
    CASE role = "navigator" -> "Navigator"
      [] role = "intel" -> "Intel"
      [] role = "engineer" -> "Engineer"
      [] role = "operations" -> "Operations"
      [] role = "captain" -> "Captain"
      [] role = "crew-7" -> "Crew-7"
      [] OTHER -> role

\* Python's round(): the nearest integer to n/d (n >= 0, d > 0), a tie going
\* to the even neighbour.
Round(n, d) ==
    LET q == n \div d
        r == n % d
    IN  IF 2 * r < d THEN q
        ELSE IF 2 * r > d THEN q + 1
        ELSE IF q % 2 = 0 THEN q ELSE q + 1

Compass == <<"N", "NE", "E", "SE", "S", "SW", "W", "NW">>

\* An optional number is <<>> (None) or <<n>>.  A heading counts half degrees
\* (47 degrees is <<94>>).  The label "{wrapped:.0f}° {point}" is kept as its
\* two parts.
format_heading_unwrapped_degrees(heading) ==
    IF heading = <<>> THEN [deg |-> "", point |-> "steady course"]
    ELSE LET wrapped == ((heading[1] % 720) + 720) % 720
             label == Compass[(Round(wrapped, 90) % Len(Compass)) + 1]
         IN  [deg |-> ToString(Round(heading[1], 2)), point |-> label]

format_heading(heading) ==
    IF heading = <<>> THEN [deg |-> "", point |-> "steady course"]
    ELSE LET wrapped == ((heading[1] % 720) + 720) % 720
             label == Compass[(Round(wrapped, 90) % Len(Compass)) + 1]
         IN  [deg |-> ToString(Round(wrapped, 2)), point |-> label]

\* A drift counts half points.
format_drift(drift) ==
    IF drift = <<>> THEN "centerline"
    ELSE LET magnitude == IF drift[1] < 0 THEN -drift[1] ELSE drift[1]
         IN  IF magnitude < 2 THEN "centerline"
             ELSE ToString(Round(magnitude, 2)) \o " pt "
                  \o (IF drift[1] > 0 THEN "starboard" ELSE "port")

\* The label as the string Python holds.
HeadingText(label) ==
    IF label.deg = "" THEN label.point ELSE label.deg \o "° " \o label.point

\* str.lower() on a compass point or the steady-course label.
LowerPoint(point) ==
    CASE point = "N" -> "n" [] point = "NE" -> "ne" [] point = "E" -> "e"
      [] point = "SE" -> "se" [] point = "S" -> "s" [] point = "SW" -> "sw"
      [] point = "W" -> "w" [] point = "NW" -> "nw" [] OTHER -> point

HeadingLower(label) ==
    IF label.deg = "" THEN LowerPoint(label.point)
    ELSE label.deg \o "° " \o LowerPoint(label.point)

\* ------------------------------------------------------------- the inputs
\* The crew members that ask: four whose id and role are the same role key,
\* one whose id is a role key and whose role is another, and one whose id is
\* no role key.
CrewMembers ==
    { [id |-> k, name |-> "Mira", role |-> k] :
         k \in {"intel", "engineer", "operations", "captain"} }
    \cup { [id |-> "navigator", name |-> "Ravi", role |-> "engineer"],
           [id |-> "crew-7", name |-> "Ada", role |-> "captain"] }

\* CrewThoughtRequest (main.py:54-60) for the crew member c.  elapsed_minutes
\* counts tenths of a minute, progress hundredths, fuel_percentage tenths of
\* a percent; the optional fields are left at their defaults.
CrewThoughtRequest(c) ==
    [crew_member |-> c,
     milestone |-> [id |-> "m1", label |-> "Cable Junction",
                    description |-> "Splice housing ahead."],
     route |-> [id |-> "r1", name |-> "Atlantic Run", cable |-> "TAT-14"],
     elapsed_minutes |-> 0,
     telemetry |-> [progress |-> 0, heading_deg |-> <<94>>, drift |-> <<-4>>,
                    fuel_percentage |-> <<>>, stress_percentage |-> <<>>],
     crew_metrics |-> <<>>]

CrewThoughtRequests == { CrewThoughtRequest(c) : c \in CrewMembers }

\* What one remote call can do: return, or raise OpenAIError.
RemoteOutcomes == {"ok", "error"}
\* The terminal status of a polled run.
RunStatuses == {"completed", "failed"}
\* A content block of a thread message; a text block holds its text.
TextBlock(lines) == [type |-> "text", text |-> lines]
ImageBlock == [type |-> "image_file", text |-> <<>>]

\* A message of the thread: the prompts are the user's and carry no run id.
Message(role, run_id, content) ==
    [role |-> role, run_id |-> run_id, content |-> content]

\* What one execution leaves in the thread: the contents of its messages in
\* the order they are emitted.  Here no message, or one message of one line.
OneLineReply == << <<TextBlock(<<"Hold the line.">>)>> >>

RunMessages == { <<>>, OneLineReply }

\* Richer executions: one message of an image and a block of white space;
\* one message whose block has an indented line, a blank line and a trailing
\* space; two messages, emitted one after the other.
BlankReply == << <<ImageBlock, TextBlock(<<"   ">>)>> >>
BulletReply ==
    << <<TextBlock(<<"Plan:", "  - hold depth", "   ", "Steer 047. ">>)>> >>
TwoMessageReply ==
    << <<TextBlock(<<"First.">>)>>, <<TextBlock(<<"Then second.">>)>> >>

TurnMessages == { BlankReply, BulletReply, TwoMessageReply }

\* ------------------------------------------------------------------ state
VARIABLES
    available,         \* is_available(): SDK importable and API key set,
                       \* fixed for the life of the process
    _assistant_cache,  \* AgentOrchestrator._assistant_cache: role -> id
    assistants,        \* the roles of the identities the remote service has
                       \* created, oldest first
    pc,                \* where create_crew_thought stands
    payload,           \* the request being handled
    context,           \* _prepare_context(payload)
    sequence,          \* run(): sequence
    stepIdx,           \* run(): position of the for loop in sequence
    conversation,      \* run(): conversation
    runState,          \* NotStarted | Running | Completed | Failed
    raised,            \* the exception that left run(), or NoneVal
    remoteOps,         \* history: the remote operations the run has issued
    thread,            \* the messages of the thread run() created, oldest first
    response,          \* the CrewThoughtResponse being built and returned
    outcome,           \* none | response | error: how the request ended
    requests,          \* crew-thought requests finished
    _ship_log_entries, \* the ship log
    _ship_log_lock,    \* the thread holding _ship_log_lock, or NoneVal
    lpc,               \* per thread: where _record_ship_log_entry stands
    record,            \* per thread: the record of _record_ship_log_entry
    observed,          \* per thread: the last _get_ship_log_entries() result
    appended,          \* history: records appended since the last clear
    cleared,           \* history: whether the log was ever cleared
    calls,             \* history: _record_ship_log_entry calls begun
    args,              \* the arguments of the function applied on its own
    returned           \* what it returned, <<>> before it is applied

crewVars == <<available, _assistant_cache, assistants, pc, payload, context, sequence,
              stepIdx, conversation, runState, raised, remoteOps, thread,
              response, outcome, requests>>
logVars == <<_ship_log_entries, _ship_log_lock, lpc, record, observed,
             appended, cleared, calls>>
pureVars == <<args, returned>>
vars == <<crewVars, logVars, pureVars>>

\* The event-loop thread and the pool threads serving the log endpoints.
LoopThread == "loop"
PoolThreads == {"t1", "t2"}
Threads == {LoopThread} \cup PoolThreads

\* ------------------------------------------------- pure parts of the flow
\* str.lower() on the milestone labels that occur.
LowerLabel(label) ==
    CASE label = "Cable Junction" -> "cable junction" [] OTHER -> label

\* The last n entries of seq.
LastN(seq, n) == SubSeq(seq, Len(seq) - n + 1, Len(seq))

Min(a, b) == IF a < b THEN a ELSE b

Max(a, b) == IF a > b THEN a ELSE b

\* main.py:16-17 clamp.
clamp(value, minimum, maximum) == Max(minimum, Min(maximum, value))

\* "{n:.1f}" for n >= 0 counted in tenths.
Tenths(n) == ToString(n \div 10) \o "." \o ToString(n % 10)

\* str.lstrip() and str.rstrip() on the lines that occur.
LStrip(line) ==
    CASE line = "   " -> ""
      [] line = "  Hold the line. " -> "Hold the line. "
      [] line = "  - hold depth" -> "- hold depth"
      [] OTHER -> line

RStrip(line) ==
    CASE line = "   " -> ""
      [] line = "  Hold the line. " -> "  Hold the line."
      [] line = "Hold the line. " -> "Hold the line."
      [] line = "Steer 047. " -> "Steer 047."
      [] OTHER -> line

\* str.strip() on a line.
Strip(line) == RStrip(LStrip(line))

\* str.strip() on a text: the blank lines at either end go, and so does the
\* white space before the first and after the last line that stays.  The
\* empty string is the text of no lines.
RECURSIVE DropBlankHead(_)
DropBlankHead(lines) ==
    IF lines # <<>> /\ Strip(Head(lines)) = ""
    THEN DropBlankHead(Tail(lines)) ELSE lines

RECURSIVE DropBlankTail(_)
DropBlankTail(lines) ==
    IF lines # <<>> /\ Strip(lines[Len(lines)]) = ""
    THEN DropBlankTail(SubSeq(lines, 1, Len(lines) - 1)) ELSE lines

StripText(lines) ==
    LET core == DropBlankTail(DropBlankHead(lines))
        n == Len(core)
    IN  IF n = 0 THEN <<>>
        ELSE IF n = 1 THEN <<Strip(core[1])>>
        ELSE <<LStrip(core[1])>> \o SubSeq(core, 2, n - 1) \o <<RStrip(core[n])>>

\* main.py:237-261 _prepare_context: the target role is the crew member's id.
\* progress comes out in percent.
_prepare_context(p) ==
    [crew |-> p.crew_member,
     milestone |-> p.milestone,
     route |-> p.route,
     elapsed_minutes |-> Max(0, p.elapsed_minutes),
     progress |-> clamp(p.telemetry.progress, 0, 100),
     telemetry |-> [heading_label |-> format_heading(p.telemetry.heading_deg),
                    drift_label |-> format_drift(p.telemetry.drift),
                    fuel_label |-> IF p.telemetry.fuel_percentage = <<>> THEN NoneVal
                                   ELSE Tenths(p.telemetry.fuel_percentage[1]) \o "% fuel",
                    stress |-> p.telemetry.stress_percentage],
     metrics |-> p.crew_metrics,
     target_role |-> p.crew_member.id]

\* No request: what payload and context hold before the first one.
NoRequest ==
    CrewThoughtRequest([id |-> NoneVal, name |-> NoneVal, role |-> NoneVal])

NoContext == _prepare_context(NoRequest)

\* Variant: the target is not removed from its natural position.
_build_sequence_keeps_target(target_role) ==
    Append(SUPPORT_SEQUENCE, target_role)

\* Variant: the target role speaks first.
_build_sequence_target_first(target_role) ==
    <<target_role>> \o SelectSeq(SUPPORT_SEQUENCE, LAMBDA role : role # target_role)

\* agents.py:152-155 _build_sequence.
_build_sequence(target_role) ==
    Append(SelectSeq(SUPPORT_SEQUENCE, LAMBDA role : role # target_role),
           target_role)

\* CrewThoughtResponse with its defaults (main.py:63-68).
CrewThoughtResponse(transcript, chain, provider, conv) ==
    [transcript |-> transcript, chain_of_thought |-> chain,
     provider |-> provider, conversation |-> conv, log_entry_id |-> NoneVal]

NoResponse == CrewThoughtResponse(<<>>, <<>>, NoneVal, <<>>)

\* Variant: the fallback leaves the provider to the default of
\* CrewThoughtResponse (main.py:66).
synthesise_fallback_default_provider(ctx) ==
    CrewThoughtResponse(
        << ctx.crew.name \o ": Maintain " \o HeadingLower(ctx.telemetry.heading_label)
             \o " and hold the line through " \o LowerLabel(ctx.milestone.label)
             \o "." \o " Report if drift grows beyond safe margins." >>,
        << "Navigator notes heading " \o HeadingText(ctx.telemetry.heading_label)
             \o " with " \o ctx.telemetry.drift_label \o ".",
           "Intel confirms corridor risks near " \o ctx.milestone.label \o ".",
           "Engineering keeps propulsion steady for cardinal adjustments." >>,
        "agents-backend", <<>>)

\* agents.py:244-259 synthesise_fallback, passed to
\* CrewThoughtResponse(**fallback) (main.py:331, 334).
synthesise_fallback(ctx) ==
    LET heading == ctx.telemetry.heading_label
        drift == ctx.telemetry.drift_label
        chain == << "Navigator notes heading " \o HeadingText(heading)
                      \o " with " \o drift \o ".",
                    "Intel confirms corridor risks near "
                      \o ctx.milestone.label \o ".",
                    "Engineering keeps propulsion steady for cardinal adjustments." >>
        transcript == << ctx.crew.name \o ": Maintain " \o HeadingLower(heading)
                           \o " and hold the line through "
                           \o LowerLabel(ctx.milestone.label) \o "."
                           \o " Report if drift grows beyond safe margins." >>
    IN  CrewThoughtResponse(transcript, chain, "fallback", <<>>)

\* Variant: the lines are taken as they are.
RECURSIVE EntryLines_untrimmed(_, _)
EntryLines_untrimmed(role, content) ==
    IF content = <<>> THEN <<>>
    ELSE (IF Head(content) # "" THEN << Title(role) \o ": " \o Head(content) >>
          ELSE <<>>)
         \o EntryLines_untrimmed(role, Tail(content))

\* main.py:274-277: the thought lines of one entry: each line stripped, and
\* prefixed if anything is left of it.
RECURSIVE EntryLines(_, _)
EntryLines(role, content) ==
    IF content = <<>> THEN <<>>
    ELSE LET cleaned == Strip(Head(content))
         IN  (IF cleaned # "" THEN << Title(role) \o ": " \o cleaned >> ELSE <<>>)
             \o EntryLines(role, Tail(content))

RECURSIVE ThoughtLines(_)
ThoughtLines(conv) ==
    IF conv = <<>> THEN <<>>
    ELSE EntryLines(Head(conv).role, Head(conv).content) \o ThoughtLines(Tail(conv))

\* main.py _build_response_from_conversation, for a non-empty conversation.
_build_response_from_conversation(conv) ==
    CrewThoughtResponse(conv[Len(conv)].content, ThoughtLines(conv),
                        "agents-backend", conv)

\* agents.py:236: response_text.strip() or "No directive provided."
ResponseText(text) ==
    IF text = <<>> THEN <<"No directive provided.">> ELSE text

\* agents.py:23-92: the prompt_template of a role of AGENT_DEFINITIONS.
prompt_template(role) ==
    CASE role = "navigator" ->
           "Detail two bullet points covering helm adjustments and hazard avoidance using cardinal language."
           \o " Finish with one sentence that issues a navigation recommendation."
      [] role = "intel" ->
           "Provide two short bullets describing the sensor picture and recommended observation arcs,"
           \o " then close with a sentence that briefs the bridge on monitoring priorities."
      [] role = "engineer" ->
           "Share two bullets on machinery posture and ballast trim,"
           \o " followed by one sentence that confirms propulsion readiness for the specified course."
      [] role = "operations" ->
           "Produce two bullets highlighting crew coordination tied to the current heading and drift,"
           \o " and finish with a sentence assigning next check-in responsibilities."
      [] role = "captain" ->
           "Deliver two short assessments covering risk and mission priority,"
           \o " then issue a single-sentence command decision that names the heading to hold."

\* agents.py:116-119 format_efficiency, the efficiency counted in hundredths.
format_efficiency(efficiency) ==
    IF efficiency = <<>> THEN "" ELSE "Efficiency " \o ToString(efficiency[1]) \o "%"

\* ", ".join(filter(None, parts)).
RECURSIVE JoinNonEmpty(_)
JoinNonEmpty(parts) ==
    IF parts = <<>> THEN ""
    ELSE LET rest == JoinNonEmpty(Tail(parts))
         IN  IF Head(parts) = "" THEN rest
             ELSE IF rest = "" THEN Head(parts)
             ELSE Head(parts) \o ", " \o rest

\* agents.py:175-182: the detail line of the crew metrics, <<>> when there
\* are no metrics or none of them is set.
MetricsDetail(metrics) ==
    IF metrics = <<>> THEN <<>>
    ELSE LET m == metrics[1]
             detail == JoinNonEmpty(
                 << format_efficiency(m.efficiency),
                    IF m.stress = <<>> THEN "" ELSE "Stress " \o ToString(m.stress[1]) \o "%",
                    IF m.fatigue = <<>> THEN "" ELSE "Fatigue " \o ToString(m.fatigue[1]) \o "%" >>)
         IN  IF detail = "" THEN <<>> ELSE <<detail>>

\* agents.py:185-187: one line "{Role}: {content}" per earlier entry; a
\* content of several lines goes on after its first line.
RECURSIVE PriorThread(_)
PriorThread(prior_responses) ==
    IF prior_responses = <<>> THEN <<>>
    ELSE LET entry == Head(prior_responses)
         IN  << Title(entry.role) \o ": " \o Head(entry.content) >>
             \o Tail(entry.content) \o PriorThread(Tail(prior_responses))

\* Variant: only the entry of the step before is handed on.
_compose_prompt_last_entry_only(role, ctx, prior_responses) ==
    LET telemetry == ctx.telemetry
        summary_lines ==
            << "Mission: " \o ctx.route.name \o " (" \o ctx.route.cable \o ").",
               "Milestone: " \o ctx.milestone.label \o " -- " \o ctx.milestone.description,
               "Elapsed: " \o Tenths(ctx.elapsed_minutes) \o " min · Progress "
                 \o ToString(ctx.progress) \o "% complete",
               "Heading " \o HeadingText(telemetry.heading_label) \o " with "
                 \o telemetry.drift_label \o " drift" >>
            \o (IF telemetry.fuel_label # NoneVal
                THEN << "Fuel reserves " \o telemetry.fuel_label >> ELSE <<>>)
            \o MetricsDetail(ctx.metrics)
        conversation_ ==
            IF prior_responses # <<>>
            THEN <<"", "Prior inputs:">>
                 \o PriorThread(<<prior_responses[Len(prior_responses)]>>) \o <<"">>
            ELSE <<"", "No prior agent inputs.", "">>
        template ==
            IF role = ctx.target_role
            THEN "Speak as " \o ctx.crew.name \o " (" \o ctx.crew.role \o "). "
                 \o "Provide two crisp bullets describing your reasoning and finish with a directive"
                 \o " sentence for the crew that cites the heading to steer."
            ELSE IF role \in AGENT_DEFINITIONS THEN prompt_template(role)
            ELSE "Summarise the situation in two bullet points and close with a directive sentence"
                 \o " that references the present heading."
    IN  summary_lines \o conversation_ \o <<template>>

\* agents.py:157-208 _compose_prompt: the summary, the earlier entries and
\* the template of the role, as the lines of the prompt (the dash of the
\* milestone line is written "--").
_compose_prompt(role, ctx, prior_responses) ==
    LET telemetry == ctx.telemetry
        summary_lines ==
            << "Mission: " \o ctx.route.name \o " (" \o ctx.route.cable \o ").",
               "Milestone: " \o ctx.milestone.label \o " -- " \o ctx.milestone.description,
               "Elapsed: " \o Tenths(ctx.elapsed_minutes) \o " min · Progress "
                 \o ToString(ctx.progress) \o "% complete",
               "Heading " \o HeadingText(telemetry.heading_label) \o " with "
                 \o telemetry.drift_label \o " drift" >>
            \o (IF telemetry.fuel_label # NoneVal
                THEN << "Fuel reserves " \o telemetry.fuel_label >> ELSE <<>>)
            \o MetricsDetail(ctx.metrics)
        conversation_ ==
            IF prior_responses # <<>>
            THEN <<"", "Prior inputs:">> \o PriorThread(prior_responses) \o <<"">>
            ELSE <<"", "No prior agent inputs.", "">>
        template ==
            IF role = ctx.target_role
            THEN "Speak as " \o ctx.crew.name \o " (" \o ctx.crew.role \o "). "
                 \o "Provide two crisp bullets describing your reasoning and finish with a directive"
                 \o " sentence for the crew that cites the heading to steer."
            ELSE IF role \in AGENT_DEFINITIONS THEN prompt_template(role)
            ELSE "Summarise the situation in two bullet points and close with a directive sentence"
                 \o " that references the present heading."
    IN  summary_lines \o conversation_ \o <<template>>

\* The id of the execution of step i of a run.
RunId(step) == "run-" \o ToString(step)

Reverse(seq) == [i \in 1..Len(seq) |-> seq[Len(seq) + 1 - i]]

\* agents.py:228 messages.list(order="desc", limit=5): the newest messages
\* of the thread, newest first.
MessagesList(th, limit) == Reverse(LastN(th, Min(Len(th), limit)))

\* agents.py:233-235: each text block stripped and followed by a newline.
RECURSIVE BlocksText(_)
BlocksText(content) ==
    IF content = <<>> THEN <<>>
    ELSE (IF Head(content).type = "text"
          THEN LET value == StripText(Head(content).text)
               IN  IF value = <<>> THEN <<"">> ELSE value
          ELSE <<>>)
         \o BlocksText(Tail(content))

\* agents.py:229-235: the text of the listed messages that carry the id of
\* the execution, in the order listed.
RECURSIVE CollectText(_, _)
CollectText(messages, run_id) ==
    IF messages = <<>> THEN <<>>
    ELSE (IF Head(messages).run_id # run_id THEN <<>>
          ELSE BlocksText(Head(messages).content))
         \o CollectText(Tail(messages), run_id)

\* Variant: the handler catches RuntimeError only.
Catches_RuntimeError_only(exc) == exc = "RuntimeError"

\* main.py:327-329: what the handler of create_crew_thought catches.  No
\* HTTPException is raised anywhere in the flow, so every exception is caught.
Catches(exc) == exc \in {"RuntimeError", "OpenAIError", "KeyError", "ValueError"}

\* ------------------------------------------------------------ the ship log
\* A datetime: seconds, microseconds and its zone, "" when it is naive and
\* "Z" when it carries the offset of UTC.
DateTime(secs, micro, tz) == [secs |-> secs, micro |-> micro, tz |-> tz]

\* main.py:122-123 _serialize_timestamp: the microseconds are dropped and the
\* text keeps the seconds followed by the zone, if any.
_serialize_timestamp(value) == [secs |-> value.secs, tz |-> value.tz]

\* datetime.utcnow() when the n-th record is built: a naive time; the clock
\* ticks between calls.
utcnow(n) == DateTime(n, 500, "")

\* ShipLogEntryPayload with its defaults (main.py:71-91).
ShipLogEntryPayload(id, timestamp, entry_type, author, role, transcript, chain, provider, metadata, conv) ==
    [id |-> id, timestamp |-> timestamp, entry_type |-> entry_type,
     author |-> author, role |-> role, transcript |-> transcript,
     chain_of_thought |-> chain, provider |-> provider,
     metadata |-> metadata, conversation |-> conv]

\* Variant: the id of the caller is not looked at.
BuildRecord_fresh_id(p, uuid, now, seq) ==
    [id |-> "log-" \o ToString(uuid),
     timestamp |-> _serialize_timestamp(
                      IF p.timestamp = <<>> THEN now ELSE p.timestamp[1]),
     type |-> p.entry_type, author |-> p.author, role |-> p.role,
     transcript |-> p.transcript, chain_of_thought |-> p.chain_of_thought,
     provider |-> p.provider, metadata |-> p.metadata,
     conversation |-> p.conversation, seq |-> seq]

\* main.py:127-140: the record built from a payload.  uuid is the fresh
\* uuid4 value, now the utcnow() value; seq tells the record objects apart.
BuildRecord(p, uuid, now, seq) ==
    [id |-> IF p.id \in {NoneVal, ""} THEN "log-" \o ToString(uuid) ELSE p.id,
     timestamp |-> _serialize_timestamp(
                      IF p.timestamp = <<>> THEN now ELSE p.timestamp[1]),
     type |-> p.entry_type, author |-> p.author, role |-> p.role,
     transcript |-> p.transcript, chain_of_thought |-> p.chain_of_thought,
     provider |-> p.provider, metadata |-> p.metadata,
     conversation |-> p.conversation, seq |-> seq]

NoRecord == BuildRecord(
    ShipLogEntryPayload("-", <<>>, NoneVal, NoneVal, NoneVal, <<>>,
                        <<>>, NoneVal, <<>>, <<>>), 0, utcnow(0), 0)

\* Variant: the slice deleted is one entry short.
TrimLog_one_short(entries) ==
    IF Len(entries) > _MAX_LOG_ENTRIES + 1
    THEN SubSeq(entries, Len(entries) - _MAX_LOG_ENTRIES, Len(entries))
    ELSE entries

\* Variant: the newest entries are deleted instead of the oldest.
TrimLog_from_back(entries) ==
    IF Len(entries) > _MAX_LOG_ENTRIES
    THEN SubSeq(entries, 1, _MAX_LOG_ENTRIES)
    ELSE entries

\* main.py:143-144: the slice deleted once the cap is exceeded.
TrimLog(entries) ==
    IF Len(entries) > _MAX_LOG_ENTRIES
    THEN SubSeq(entries, Len(entries) - _MAX_LOG_ENTRIES + 1, Len(entries))
    ELSE entries

\* Variant: the log is touched without the lock.
LockFree_unguarded(holder) == TRUE

\* "with _ship_log_lock": the lock is taken only when no thread holds it.
LockFree(holder) == holder = NoneVal

\* main.py:141-142: the lock taken and the record appended.
AppendLocked(t) ==
    /\ lpc[t] = "wait"
    /\ LockFree(_ship_log_lock)
    /\ _ship_log_lock' = t
    /\ _ship_log_entries' = Append(_ship_log_entries, record[t])
    /\ appended' = Append(appended, record[t])
    /\ lpc' = [lpc EXCEPT ![t] = "pushed"]
    /\ UNCHANGED <<record, observed, cleared, calls>>

\* main.py:143-145: the front trimmed, the lock released, the record returned.
TrimRelease(t) ==
    /\ lpc[t] = "pushed"
    /\ _ship_log_entries' = TrimLog(_ship_log_entries)
    /\ _ship_log_lock' = NoneVal
    /\ lpc' = [lpc EXCEPT ![t] = "done"]
    /\ UNCHANGED <<record, observed, appended, cleared, calls>>

\* What POST /api/log is sent: an entry with neither id nor time, and one
\* with an id and a time in UTC.
LogPayloads ==
    { ShipLogEntryPayload(NoneVal, <<>>, "system", "Control", NoneVal,
                          <<"Waypoint reached. Holding.">>, <<>>, NoneVal,
                          <<>>, <<>>),
      ShipLogEntryPayload("entry-a", << DateTime(1, 250, "Z") >>, "crew", "Mira",
                          "captain", <<"Steady as she goes.">>,
                          <<"Captain: steady">>, "fallback", <<>>, <<>>) }

\* The same, and an entry that comes with an empty id.
IdPayloads ==
    LogPayloads \cup
    { ShipLogEntryPayload("", <<>>, "reflection", "Ravi", "engineer",
                          <<"Morale holds.">>, <<>>, NoneVal, <<>>, <<>>) }

\* main.py:158-164 _parse_timestamp: the time a serialized timestamp stands
\* for.  What _serialize_timestamp writes always parses.
_parse_timestamp(value) == DateTime(value.secs, 0, value.tz)

\* main.py:167-180 _format_duration, of a number of seconds.
_format_duration(total_seconds) ==
    IF total_seconds <= 0 THEN NoneVal
    ELSE LET hours == total_seconds \div 3600
             minutes == (total_seconds % 3600) \div 60
             parts ==
                 (IF hours # 0
                  THEN << ToString(hours) \o " hour" \o (IF hours # 1 THEN "s" ELSE "") >>
                  ELSE <<>>)
                 \o (IF minutes # 0
                     THEN << ToString(minutes) \o " minute" \o (IF minutes # 1 THEN "s" ELSE "") >>
                     ELSE <<>>)
         IN  IF parts = <<>> THEN "moments"
             ELSE IF Len(parts) = 1 THEN parts[1]
             ELSE parts[1] \o " and " \o parts[2]

\* The order of two serialized timestamps as strings: by the seconds, and a
\* text that ends there before the one that goes on with "Z".
TimestampBefore(a, b) ==
    \/ a.secs < b.secs
    \/ a.secs = b.secs /\ a.tz = "" /\ b.tz = "Z"

\* main.py:187 sorted(entries, key=lambda item: item.timestamp): stable, an
\* entry stays behind those whose timestamp is the same.
RECURSIVE InsertByTimestamp(_, _)
InsertByTimestamp(ordered, entry) ==
    IF ordered = <<>> THEN <<entry>>
    ELSE IF TimestampBefore(entry.timestamp, Head(ordered).timestamp)
         THEN <<entry>> \o ordered
         ELSE <<Head(ordered)>> \o InsertByTimestamp(Tail(ordered), entry)

RECURSIVE SortedByTimestamp(_)
SortedByTimestamp(entries) ==
    IF entries = <<>> THEN <<>>
    ELSE InsertByTimestamp(
             SortedByTimestamp(SubSeq(entries, 1, Len(entries) - 1)),
             entries[Len(entries)])

\* main.py:213: transcript.split(".")[0], on the transcripts that occur.
FirstSentence(transcript) ==
    CASE transcript = <<"Waypoint reached. Holding.">> -> "Waypoint reached"
      [] transcript = <<"Steady as she goes.">> -> "Steady as she goes"
      [] transcript = <<"Morale holds.">> -> "Morale holds"
      [] transcript = <<>> -> ""
      [] OTHER -> Head(transcript)

\* main.py:212-214: ", ".join(...) over the events.
RECURSIVE Highlights(_)
Highlights(events) ==
    IF events = <<>> THEN ""
    ELSE IF Len(events) = 1 THEN FirstSentence(events[1].transcript)
    ELSE FirstSentence(events[1].transcript) \o ", " \o Highlights(Tail(events))

\* main.py:228-232: the closing paragraph, the lines of the stripped
\* transcript between the quotation marks.
Closing(final_update) ==
    LET closing == StripText(final_update.transcript)
        opens == "The journey closed with " \o final_update.author \o "'s words: \""
        n == Len(closing)
    IN  IF n = 0 THEN << opens \o "\"" >>
        ELSE IF n = 1 THEN << opens \o closing[1] \o "\"" >>
        ELSE << opens \o closing[1] >> \o SubSeq(closing, 2, n - 1)
             \o << closing[n] \o "\"" >>

\* main.py:183-234 _build_ship_log_story: the paragraphs of the story, each
\* the lines of its text; or the exception that leaves it.  Subtracting a
\* naive time and one with a zone raises TypeError.
_build_ship_log_story(entries) ==
    IF entries = <<>>
    THEN [raised |-> NoneVal,
          story |-> << <<"No ship log entries were recorded for this voyage.">> >>]
    ELSE
      LET ordered == SortedByTimestamp(entries)
          start_time == _parse_timestamp(ordered[1].timestamp)
          end_time == _parse_timestamp(ordered[Len(ordered)].timestamp)
      IN  IF start_time.tz # end_time.tz
          THEN [raised |-> "TypeError", story |-> <<>>]
          ELSE
            LET duration_label == _format_duration(end_time.secs - start_time.secs)
                total_entries == Len(entries)
                system_events == SelectSeq(ordered, LAMBDA e : e.type = "system")
                reflection_events == SelectSeq(ordered, LAMBDA e : e.type = "reflection")
                crew_updates ==
                    SelectSeq(ordered, LAMBDA e : e.type \in {"crew", "reflection"})
                opening ==
                    (IF total_entries # 1
                     THEN "The ship's log captures " \o ToString(total_entries)
                          \o " coordinated updates"
                     ELSE "The ship's log captures a single coordinated update")
                    \o (IF duration_label # NoneVal
                        THEN " across " \o duration_label \o "." ELSE ".")
            IN  [raised |-> NoneVal,
                 story |->
                   << <<opening>> >>
                   \o (IF system_events # <<>>
                       THEN << << "Mission waypoints and alerts were marked by the control team: "
                                  \o Highlights(SubSeq(system_events, 1, Min(3, Len(system_events))))
                                  \o "." >> >>
                       ELSE <<>>)
                   \o (IF reflection_events # <<>>
                       THEN << << "Crew reflections surfaced on a steady cadence, allowing every department to "
                                  \o "voice morale and emotional posture as the voyage advanced." >> >>
                       ELSE <<>>)
                   \o (IF crew_updates # <<>>
                       THEN << Closing(crew_updates[Len(crew_updates)]) >>
                       ELSE <<>>)]

\* The endpoints that read the log through _get_ship_log_entries.
ReadEndpoints == {"list", "download", "story"}

\* Variant: the log's own list is handed out instead of a copy.
ListCopy_same_list(entries) == [live |-> TRUE, entries |-> entries]

\* main.py:150 list(_ship_log_entries): a new list holding the entries of
\* that moment.  live tells whether the list handed out is the log's own.
ListCopy(entries) == [live |-> FALSE, entries |-> entries]

\* main.py:359 and 374: download_ship_log and ship_log_story put the number
\* of entries next to them; list_ship_log returns the entries alone.
EntryCount(endpoint, entries) ==
    IF endpoint = "list" THEN <<>> ELSE <<Len(entries)>>

\* What a reader holds.  at is history: the appends since the last clear and
\* whether the log had been cleared, when the entries were read.
NoStory == [raised |-> NoneVal, story |-> <<>>]

NoObservation ==
    [endpoint |-> NoneVal, entries |-> <<>>, live |-> FALSE, torn |-> FALSE,
     entry_count |-> <<>>, story |-> NoStory,
     at |-> [appended |-> <<>>, cleared |-> FALSE]]

\* main.py:338-340 append_ship_log up to the record of
\* _record_ship_log_entry (main.py:127-140).
AppendShipLog(t, p) ==
    /\ lpc[t] = "idle"
    /\ calls < MaxAppends
    /\ record' = [record EXCEPT
                    ![t] = BuildRecord(p, calls + 1, utcnow(calls + 1), calls + 1)]
    /\ calls' = calls + 1
    /\ lpc' = [lpc EXCEPT ![t] = "wait"]
    /\ observed' = [observed EXCEPT ![t] = NoObservation]
    /\ UNCHANGED <<_ship_log_entries, _ship_log_lock, appended, cleared>>

\* main.py:340: the record is returned to the caller.
AppendReturn(t) ==
    /\ lpc[t] = "done"
    /\ lpc' = [lpc EXCEPT ![t] = "idle"]
    /\ UNCHANGED <<_ship_log_entries, _ship_log_lock, record, observed,
                   appended, cleared, calls>>

\* main.py:148-150 _get_ship_log_entries, called by list_ship_log (343-345),
\* download_ship_log (354-367) and ship_log_story (370-374): a copy taken
\* under the lock.  torn notes whether an append stood between its push and
\* its trim.
GetShipLogEntries(t, endpoint) ==
    /\ lpc[t] = "idle"
    /\ LockFree(_ship_log_lock)
    /\ LET entries == ListCopy(_ship_log_entries)
       IN  observed' = [observed EXCEPT
                          ![t] = [endpoint |-> endpoint,
                                  entries |-> entries.entries,
                                  live |-> entries.live,
                                  torn |-> \E u \in Threads : lpc[u] = "pushed",
                                  entry_count |-> EntryCount(endpoint, entries.entries),
                                  story |-> IF endpoint = "story"
                                            THEN _build_ship_log_story(entries.entries)
                                            ELSE NoStory,
                                  at |-> [appended |-> appended,
                                          cleared |-> cleared]]]
    /\ UNCHANGED <<_ship_log_entries, _ship_log_lock, lpc, record, appended,
                   cleared, calls>>

\* main.py:348-351 clear_ship_log and 153-155 _reset_ship_log.
ClearShipLog(t) ==
    /\ lpc[t] = "idle"
    /\ LockFree(_ship_log_lock)
    /\ _ship_log_entries' = <<>>
    /\ appended' = <<>>
    /\ cleared' = TRUE
    /\ observed' = [observed EXCEPT ![t] = NoObservation]
    /\ UNCHANGED <<_ship_log_lock, lpc, record, calls>>

\* ------------------------------------------------- POST /api/crew/thought
\* Variant: the API key is not consulted.
is_available_ignores_key == TRUE

\* agents.py:128-129 is_available.
is_available == available

\* The id the remote service gives the n-th identity it creates.
AssistantId(n) == "asst-" \o ToString(n)

\* Variant: the new identity is not kept.
CacheStore_dropped(cache, role, id) == cache

\* agents.py:149: self._assistant_cache[role] = assistant.id.
CacheStore(cache, role, id) == (role :> id) @@ cache

\* One remote operation of a run and how it ended: the outcome of the call,
\* or for a polled run that returned, its terminal status.
RemoteOp(op, role, step, result) ==
    [op |-> op, role |-> role, step |-> step, result |-> result]

\* Variant: the status of the polled run is not looked at.
TurnSucceeded_any_status(o, status) == o = "ok"

\* agents.py:225: the polled run counts only when its status is completed.
TurnSucceeded(o, status) == o = "ok" /\ status = "completed"

\* An exception leaves run(): the run has failed and the handler takes over.
Raise(exc) ==
    /\ raised' = exc
    /\ runState' = "Failed"
    /\ pc' = "except"

\* main.py:320-322: the context is prepared and is_available() consulted.
CreateCrewThought(p) ==
    /\ pc = "idle"
    /\ payload' = p
    /\ context' = _prepare_context(p)
    /\ pc' = IF is_available THEN "run" ELSE "unavailable"
    /\ sequence' = <<>>
    /\ stepIdx' = 0
    /\ conversation' = <<>>
    /\ runState' = "NotStarted"
    /\ raised' = NoneVal
    /\ remoteOps' = <<>>
    /\ thread' = <<>>
    /\ response' = NoResponse
    /\ outcome' = "none"
    /\ UNCHANGED <<pureVars, available, assistants, _assistant_cache, requests, logVars>>

\* main.py:333-334: the remote service is not available.
FallbackUnavailable ==
    /\ pc = "unavailable"
    /\ response' = synthesise_fallback(context)
    /\ pc' = "log"
    /\ UNCHANGED <<pureVars, available, assistants, _assistant_cache, payload, context, sequence,
                   stepIdx, conversation, runState, raised, remoteOps, thread,
                   outcome, requests, logVars>>

\* agents.py:211-217: is_available() is consulted again, the sequence is
\* built and the thread created.  An
\* OpenAIError here is outside the try block and leaves run() unwrapped.
RunStart(o) ==
    /\ pc = "run"
    /\ IF ~is_available
       THEN /\ Raise("RuntimeError")
            /\ UNCHANGED <<sequence, conversation, stepIdx, remoteOps, thread>>
       ELSE /\ sequence' = _build_sequence(context.target_role)
            /\ conversation' = <<>>
            /\ thread' = <<>>
            /\ remoteOps' = Append(remoteOps,
                                  RemoteOp("threads.create", NoneVal, 0, o))
            /\ IF o = "ok"
               THEN /\ runState' = "Running"
                    /\ stepIdx' = 1
                    /\ pc' = "ensure"
                    /\ UNCHANGED raised
               ELSE /\ Raise("OpenAIError")
                    /\ UNCHANGED stepIdx
    /\ UNCHANGED <<pureVars, available, assistants, _assistant_cache, payload, context, response,
                   outcome, requests, logVars>>

\* agents.py:221 and 138-150 _ensure_assistant: the cached identity, or a
\* new one; AGENT_DEFINITIONS[role] raises KeyError for an unknown role.
EnsureAssistant(o) ==
    /\ pc = "ensure"
    /\ LET role == sequence[stepIdx]
       IN  IF role \in DOMAIN _assistant_cache
           THEN /\ pc' = "message"
                /\ UNCHANGED <<_assistant_cache, assistants, remoteOps, raised,
                               runState>>
           ELSE IF role \notin AGENT_DEFINITIONS
           THEN /\ Raise("KeyError")
                /\ UNCHANGED <<_assistant_cache, assistants, remoteOps>>
           ELSE /\ remoteOps' = Append(remoteOps,
                                  RemoteOp("assistants.create", role, stepIdx, o))
                /\ IF o = "ok"
                   THEN /\ assistants' = Append(assistants, role)
                        /\ _assistant_cache' =
                              CacheStore(_assistant_cache, role,
                                         AssistantId(Len(assistants) + 1))
                        /\ pc' = "message"
                        /\ UNCHANGED <<raised, runState>>
                   ELSE /\ Raise("RuntimeError")
                        /\ UNCHANGED <<_assistant_cache, assistants>>
    /\ UNCHANGED <<pureVars, available, payload, context, sequence, stepIdx,
                   conversation, thread, response, outcome, requests, logVars>>

\* agents.py:222-223: the prompt is composed and submitted to the thread.
SubmitMessage(o) ==
    /\ pc = "message"
    /\ remoteOps' = Append(remoteOps,
                      RemoteOp("messages.create", sequence[stepIdx], stepIdx, o))
    /\ IF o = "ok"
       THEN /\ thread' = Append(thread,
                    Message("user", NoneVal,
                            << TextBlock(_compose_prompt(sequence[stepIdx], context,
                                                         conversation)) >>))
            /\ pc' = "poll"
            /\ UNCHANGED <<raised, runState>>
       ELSE Raise("RuntimeError") /\ UNCHANGED thread
    /\ UNCHANGED <<pureVars, available, assistants, _assistant_cache, payload, context, sequence,
                   stepIdx, conversation, response, outcome, requests, logVars>>

\* agents.py:224-226: the turn is executed and polled to a terminal status;
\* a completed execution has put its messages into the thread.  What a
\* failed one leaves there is read by nobody.
CreateAndPoll(o, status, emitted) ==
    /\ pc = "poll"
    /\ remoteOps' = Append(remoteOps,
                      RemoteOp("runs.create_and_poll", sequence[stepIdx], stepIdx,
                               IF o = "ok" THEN status ELSE o))
    /\ IF TurnSucceeded(o, status)
       THEN /\ thread' = thread \o
                    [i \in 1..Len(emitted) |->
                        Message("assistant", RunId(stepIdx), emitted[i])]
            /\ pc' = "collect"
            /\ UNCHANGED <<raised, runState>>
       ELSE Raise("RuntimeError") /\ UNCHANGED thread
    /\ UNCHANGED <<pureVars, available, assistants, _assistant_cache, payload, context, sequence,
                   stepIdx, conversation, response, outcome, requests, logVars>>

\* Variant: the loop does not move on to the next role.
CollectResponse_same_step(o) ==
    /\ pc = "collect"
    /\ remoteOps' = Append(remoteOps,
                      RemoteOp("messages.list", sequence[stepIdx], stepIdx, o))
    /\ IF o = "ok"
       THEN /\ \E messages \in { MessagesList(thread, 5) } :
                 \E collected \in { CollectText(messages, RunId(stepIdx)) } :
                   \E response_text \in { StripText(collected) } :
                     conversation' = Append(conversation,
                         [role |-> sequence[stepIdx],
                          content |-> ResponseText(response_text)])
            /\ IF stepIdx = Len(sequence)
               THEN /\ runState' = "Completed"
                    /\ pc' = "assemble"
                    /\ UNCHANGED stepIdx
               ELSE /\ stepIdx' = stepIdx
                    /\ pc' = "ensure"
                    /\ UNCHANGED runState
            /\ UNCHANGED raised
       ELSE /\ Raise("RuntimeError")
            /\ UNCHANGED <<conversation, stepIdx>>
    /\ UNCHANGED <<pureVars, available, assistants, _assistant_cache, payload, context, sequence,
                   thread, response, outcome, requests, logVars>>

\* agents.py:228-237 and 241: the newest messages are listed, the text of
\* those of this execution is put together and appended; after the last role
\* run() returns the conversation.
\* The locals messages and response_text are bound as values, each computed
\* once.
CollectResponse(o) ==
    /\ pc = "collect"
    /\ remoteOps' = Append(remoteOps,
                      RemoteOp("messages.list", sequence[stepIdx], stepIdx, o))
    /\ IF o = "ok"
       THEN /\ \E messages \in { MessagesList(thread, 5) } :
                 \E collected \in { CollectText(messages, RunId(stepIdx)) } :
                   \E response_text \in { StripText(collected) } :
                     conversation' = Append(conversation,
                         [role |-> sequence[stepIdx],
                          content |-> ResponseText(response_text)])
            /\ IF stepIdx = Len(sequence)
               THEN /\ runState' = "Completed"
                    /\ pc' = "assemble"
                    /\ UNCHANGED stepIdx
               ELSE /\ stepIdx' = stepIdx + 1
                    /\ pc' = "ensure"
                    /\ UNCHANGED runState
            /\ UNCHANGED raised
       ELSE /\ Raise("RuntimeError")
            /\ UNCHANGED <<conversation, stepIdx>>
    /\ UNCHANGED <<pureVars, available, assistants, _assistant_cache, payload, context, sequence,
                   thread, response, outcome, requests, logVars>>

\* main.py:325 and 264-283: the response is assembled; an empty conversation
\* raises ValueError inside the handler's try block.
AssembleResponse ==
    /\ pc = "assemble"
    /\ IF conversation = <<>>
       THEN /\ raised' = "ValueError"
            /\ pc' = "except"
            /\ UNCHANGED response
       ELSE /\ response' = _build_response_from_conversation(conversation)
            /\ pc' = "log"
            /\ UNCHANGED raised
    /\ UNCHANGED <<pureVars, available, assistants, _assistant_cache, payload, context, sequence,
                   stepIdx, conversation, runState, remoteOps, thread, outcome,
                   requests, logVars>>

\* main.py:327-331: the exception is caught and the fallback substituted; an
\* exception the handler does not catch ends the request.
HandleException ==
    /\ pc = "except"
    /\ IF Catches(raised)
       THEN /\ response' = synthesise_fallback(context)
            /\ pc' = "log"
            /\ UNCHANGED <<outcome, requests>>
       ELSE /\ outcome' = "error"
            /\ pc' = "idle"
            /\ requests' = requests + 1
            /\ UNCHANGED response
    /\ UNCHANGED <<pureVars, available, assistants, _assistant_cache, payload, context, sequence,
                   stepIdx, conversation, runState, raised, remoteOps, thread,
                   logVars>>

\* main.py:291-302: the metadata of a crew-thought entry, as key/value pairs
\* (the identifying keys; the numeric ones repeat the context).
CrewMetadata(p) ==
    << <<"crew_id", p.crew_member.id>>, <<"crew_role", p.crew_member.role>>,
       <<"milestone_id", p.milestone.id>>, <<"source", "crew_thought">> >>

\* main.py:286-315 _log_crew_thought up to the record of
\* _record_ship_log_entry (main.py:127-140).
LogCrewThought ==
    /\ pc = "log"
    /\ lpc[LoopThread] = "idle"
    /\ LET entry == ShipLogEntryPayload(
                        response.log_entry_id, <<>>, "crew",
                        payload.crew_member.name, payload.crew_member.role,
                        response.transcript, response.chain_of_thought,
                        response.provider, CrewMetadata(payload),
                        response.conversation)
       IN  record' = [record EXCEPT
                        ![LoopThread] = BuildRecord(entry, calls + 1, utcnow(calls + 1), calls + 1)]
    /\ calls' = calls + 1
    /\ lpc' = [lpc EXCEPT ![LoopThread] = "wait"]
    /\ pc' = "logging"
    /\ UNCHANGED <<pureVars, available, assistants, _assistant_cache, payload, context, sequence,
                   stepIdx, conversation, runState, raised, remoteOps, thread,
                   response, outcome, requests, _ship_log_entries,
                   _ship_log_lock, observed, appended, cleared>>

\* main.py:316 and 326/332/335: the response goes out with the record's id.
ReturnResponse ==
    /\ pc = "logging"
    /\ lpc[LoopThread] = "done"
    /\ response' = [response EXCEPT !.log_entry_id = record[LoopThread].id]
    /\ outcome' = "response"
    /\ requests' = requests + 1
    /\ lpc' = [lpc EXCEPT ![LoopThread] = "idle"]
    /\ pc' = "idle"
    /\ UNCHANGED <<pureVars, available, assistants, _assistant_cache, payload, context, sequence,
                   stepIdx, conversation, runState, raised, remoteOps, thread,
                   _ship_log_entries, _ship_log_lock, record, observed,
                   appended, cleared, calls>>

\* ------------------------------------------------------------ the machine
\* A fresh process: main.py:115-119, agents.py:123-126.
ProcessInit ==
    /\ available \in BOOLEAN
    /\ _assistant_cache = <<>>
    /\ assistants = <<>>
    /\ pc = "idle"
    /\ payload = NoRequest
    /\ context = NoContext
    /\ sequence = <<>>
    /\ stepIdx = 0
    /\ conversation = <<>>
    /\ runState = "NotStarted"
    /\ raised = NoneVal
    /\ remoteOps = <<>>
    /\ thread = <<>>
    /\ response = NoResponse
    /\ outcome = "none"
    /\ requests = 0
    /\ _ship_log_entries = <<>>
    /\ _ship_log_lock = NoneVal
    /\ lpc = [t \in Threads |-> "idle"]
    /\ record = [t \in Threads |-> NoRecord]
    /\ observed = [t \in Threads |-> NoObservation]
    /\ appended = <<>>
    /\ cleared = FALSE
    /\ calls = 0

\* No function is applied on its own.
Init ==
    /\ ProcessInit
    /\ args = <<>>
    /\ returned = <<>>

\* The crew-thought flow on the event loop.
Next ==
    \/ \E p \in CrewThoughtRequests :
          requests < MaxRequests /\ CreateCrewThought(p)
    \/ FallbackUnavailable
    \/ \E o \in RemoteOutcomes : RunStart(o)
    \/ \E o \in RemoteOutcomes : EnsureAssistant(o)
    \/ \E o \in RemoteOutcomes : SubmitMessage(o)
    \/ \E o \in RemoteOutcomes, status \in RunStatuses, emitted \in RunMessages :
          CreateAndPoll(o, status, emitted)
    \/ \E o \in RemoteOutcomes : CollectResponse(o)
    \/ AssembleResponse
    \/ HandleException
    \/ LogCrewThought
    \/ (AppendLocked(LoopThread) /\ UNCHANGED <<crewVars, pureVars>>)
    \/ (TrimRelease(LoopThread) /\ UNCHANGED <<crewVars, pureVars>>)
    \/ ReturnResponse

Spec == Init /\ [][Next]_vars

\* The identity cache over several requests of one process: the requests of
\* three crew members, one after the other as the event loop runs them; the
\* creation of an identity may fail and a turn may end in any status.
CacheRequests ==
    { CrewThoughtRequest(c) : c \in { m \in CrewMembers : m.id \in {"captain", "intel", "navigator"} } }

NextCache ==
    \/ \E p \in CacheRequests :
          requests < MaxCacheRequests /\ CreateCrewThought(p)
    \/ RunStart("ok")
    \/ \E o \in RemoteOutcomes : EnsureAssistant(o)
    \/ SubmitMessage("ok")
    \/ \E status \in RunStatuses : CreateAndPoll("ok", status, OneLineReply)
    \/ CollectResponse("ok")
    \/ AssembleResponse
    \/ HandleException
    \/ LogCrewThought
    \/ (AppendLocked(LoopThread) /\ UNCHANGED <<crewVars, pureVars>>)
    \/ (TrimRelease(LoopThread) /\ UNCHANGED <<crewVars, pureVars>>)
    \/ ReturnResponse

\* A process in which the remote service is available.
InitCache == Init /\ available

SpecCache == InitCache /\ [][NextCache]_vars

\* The turns of one run: the request of the captain, every remote call
\* succeeding and every execution completing with one of TurnMessages.
MaxTurnRequests == 1

TurnRequests ==
    { CrewThoughtRequest(c) : c \in { m \in CrewMembers : m.id = "captain" } }

NextTurn ==
    \/ \E p \in TurnRequests :
          requests < MaxTurnRequests /\ CreateCrewThought(p)
    \/ RunStart("ok")
    \/ EnsureAssistant("ok")
    \/ SubmitMessage("ok")
    \/ \E emitted \in TurnMessages : CreateAndPoll("ok", "completed", emitted)
    \/ CollectResponse("ok")
    \/ AssembleResponse
    \/ LogCrewThought
    \/ (AppendLocked(LoopThread) /\ UNCHANGED <<crewVars, pureVars>>)
    \/ (TrimRelease(LoopThread) /\ UNCHANGED <<crewVars, pureVars>>)
    \/ ReturnResponse

SpecTurn == InitCache /\ [][NextTurn]_vars

\* The handler of create_crew_thought around the assembler: the run of the
\* orchestrator, its remote calls succeeding, or in its place a function that
\* returns a given list of entries, as a test of the handler would put there.
MaxAssembleRequests == 1
MaxEntries == 2

ConversationEntries ==
    { [role |-> "navigator", content |-> <<"Plan:", "  - hold depth">>],
      [role |-> "captain", content |-> <<"Hold the line.">>] }

AssembleArgs ==
    { [conversation |-> conv] :
        conv \in UNION { [1..n -> ConversationEntries] : n \in 0..MaxEntries } }

InitAssemble ==
    /\ ProcessInit
    /\ available
    /\ args \in AssembleArgs
    /\ returned = <<>>

\* main.py:324 with orchestrator.run replaced: it returns args.conversation
\* and issues no remote call.
RunReturns ==
    /\ pc = "run"
    /\ conversation' = args.conversation
    /\ runState' = "Completed"
    /\ pc' = "assemble"
    /\ UNCHANGED <<pureVars, available, assistants, _assistant_cache, payload, context,
                   sequence, stepIdx, raised, remoteOps, thread, response, outcome,
                   requests, logVars>>

NextAssemble ==
    \/ \E p \in TurnRequests :
          requests < MaxAssembleRequests /\ CreateCrewThought(p)
    \/ RunReturns
    \/ RunStart("ok")
    \/ EnsureAssistant("ok")
    \/ SubmitMessage("ok")
    \/ \E emitted \in RunMessages : CreateAndPoll("ok", "completed", emitted)
    \/ CollectResponse("ok")
    \/ AssembleResponse
    \/ HandleException
    \/ LogCrewThought
    \/ (AppendLocked(LoopThread) /\ UNCHANGED <<crewVars, pureVars>>)
    \/ (TrimRelease(LoopThread) /\ UNCHANGED <<crewVars, pureVars>>)
    \/ ReturnResponse

SpecAssemble == InitAssemble /\ [][NextAssemble]_vars

\* The crew-thought flow taken to its end: the requests of the captain and of
\* a crew member whose id is no role, every remote call returning with
\* success, a status that is not success, or an error.
MaxLiveRequests == 1

LiveRequests ==
    { CrewThoughtRequest(c) : c \in { m \in CrewMembers : m.id \in {"captain", "crew-7"} } }

\* The steps of a request that is being handled.  Every call of the handler
\* and of run() is synchronous, so the thread goes on as soon as the call
\* it waits for returns.
RunSteps ==
    \/ FallbackUnavailable
    \/ \E o \in RemoteOutcomes : RunStart(o)
    \/ \E o \in RemoteOutcomes : EnsureAssistant(o)
    \/ \E o \in RemoteOutcomes : SubmitMessage(o)
    \/ \E o \in RemoteOutcomes, status \in RunStatuses :
          CreateAndPoll(o, status, OneLineReply)
    \/ \E o \in RemoteOutcomes : CollectResponse(o)
    \/ AssembleResponse
    \/ HandleException
    \/ LogCrewThought
    \/ (AppendLocked(LoopThread) /\ UNCHANGED <<crewVars, pureVars>>)
    \/ (TrimRelease(LoopThread) /\ UNCHANGED <<crewVars, pureVars>>)
    \/ ReturnResponse

NextLive ==
    \/ \E p \in LiveRequests :
          requests < MaxLiveRequests /\ CreateCrewThought(p)
    \/ RunSteps

\* Every remote operation returns in the end and the thread of the handler
\* is scheduled.
Fairness == WF_vars(RunSteps)

SpecLive == Init /\ [][NextLive]_vars /\ Fairness

\* The ids of log entries: a crew-thought request on the event loop, its
\* remote calls all succeeding, next to the POST /api/log calls of
\* IdPayloads on a pool thread.
NextIds ==
    \/ \E p \in CacheRequests :
          requests < MaxRequests /\ CreateCrewThought(p)
    \/ FallbackUnavailable
    \/ RunStart("ok")
    \/ EnsureAssistant("ok")
    \/ SubmitMessage("ok")
    \/ CreateAndPoll("ok", "completed", OneLineReply)
    \/ CollectResponse("ok")
    \/ AssembleResponse
    \/ LogCrewThought
    \/ (AppendLocked(LoopThread) /\ UNCHANGED <<crewVars, pureVars>>)
    \/ (TrimRelease(LoopThread) /\ UNCHANGED <<crewVars, pureVars>>)
    \/ ReturnResponse
    \/ \E p \in IdPayloads :
          AppendShipLog("t1", p) /\ UNCHANGED <<crewVars, pureVars>>
    \/ (AppendLocked("t1") /\ UNCHANGED <<crewVars, pureVars>>)
    \/ (TrimRelease("t1") /\ UNCHANGED <<crewVars, pureVars>>)
    \/ (AppendReturn("t1") /\ UNCHANGED <<crewVars, pureVars>>)

SpecIds == Init /\ [][NextIds]_vars

\* _build_ship_log_story on its own: the entries of a snapshot and the same
\* entries in another order.  The entries are records as
\* _record_ship_log_entry builds them, at one of two moments.
MaxStoryEntries == 3

StoryEntries ==
    { BuildRecord(p, n, utcnow(n), n) : p \in IdPayloads, n \in 1..2 }

\* The sequences of at most n different elements of S.
DistinctSeqs(S, n) ==
    UNION { { f \in [1..k -> S] : \A i, j \in 1..k : i # j => f[i] # f[j] } :
            k \in 0..n }

\* The orders a sequence can be put in.
OrdersOf(seq) ==
    { [i \in 1..Len(seq) |-> seq[perm[i]]] : perm \in Permutations(1..Len(seq)) }

StoryArgs ==
    UNION { { [entries |-> e, reordered |-> r] : r \in OrdersOf(e) } :
            e \in DistinctSeqs(StoryEntries, MaxStoryEntries) }

InitStory ==
    /\ ProcessInit
    /\ ~available
    /\ args \in StoryArgs
    /\ returned = <<>>

Narrate ==
    /\ returned = <<>>
    /\ returned' = [story |-> _build_ship_log_story(args.entries),
                    reordered |-> _build_ship_log_story(args.reordered)]
    /\ UNCHANGED <<crewVars, logVars, args>>

NextStory == Narrate

SpecStory == InitStory /\ [][NextStory]_vars

\* format_heading on its own: a heading in half degrees, and the same heading
\* a number of full turns away.
MaxHeading == 800
MaxTurns == 2
FullTurn == 720

HeadingArgs ==
    { [heading |-> h, turns |-> k] :
        h \in -MaxHeading..MaxHeading, k \in -MaxTurns..MaxTurns }

InitHeading ==
    /\ ProcessInit
    /\ ~available
    /\ args \in HeadingArgs
    /\ returned = <<>>

FormatHeading ==
    /\ returned = <<>>
    /\ returned' = [label |-> format_heading(<< args.heading >>),
                    turned |-> format_heading(<< args.heading
                                                  + FullTurn * args.turns >>)]
    /\ UNCHANGED <<crewVars, logVars, args>>

NextHeading == FormatHeading

SpecHeading == InitHeading /\ [][NextHeading]_vars

\* The log endpoints on the pool threads.
NextLog ==
    \/ \E t \in PoolThreads, p \in LogPayloads :
          AppendShipLog(t, p) /\ UNCHANGED <<crewVars, pureVars>>
    \/ \E t \in PoolThreads : AppendLocked(t) /\ UNCHANGED <<crewVars, pureVars>>
    \/ \E t \in PoolThreads : TrimRelease(t) /\ UNCHANGED <<crewVars, pureVars>>
    \/ \E t \in PoolThreads : AppendReturn(t) /\ UNCHANGED <<crewVars, pureVars>>
    \/ \E t \in PoolThreads, e \in ReadEndpoints :
          GetShipLogEntries(t, e) /\ UNCHANGED <<crewVars, pureVars>>
    \/ \E t \in PoolThreads : ClearShipLog(t) /\ UNCHANGED <<crewVars, pureVars>>

\* The log endpoints do not touch the orchestrator: a fresh process.
InitLog == Init /\ ~available

SpecLog == InitLog /\ [][NextLog]_vars

\* ------------------------------------------------------------- properties
\* How often x occurs in the sequence seq.
Count(seq, x) == Cardinality({i \in 1..Len(seq) : seq[i] = x})

\* The roles of a conversation, in order.
RolesOf(conv) == [i \in 1..Len(conv) |-> conv[i].role]

\* The place of a role in the declared order of the support roles.
SupportIndex(role) ==
    CASE role = "navigator" -> 1 [] role = "intel" -> 2 [] role = "engineer" -> 3
      [] role = "operations" -> 4 [] role = "captain" -> 5 [] OTHER -> 0

\* The place of a remote operation within its step.
OpRank(op) ==
    CASE op = "threads.create" -> 0 [] op = "assistants.create" -> 1
      [] op = "messages.create" -> 2 [] op = "runs.create_and_poll" -> 3
      [] op = "messages.list" -> 4 [] OTHER -> 5

\* The results of a remote operation that let the run go on.
SuccessResults == {"ok", "completed"}

\* C1: whatever the remote service does (unavailable, a step ending in a
\* non-success status, a transport error anywhere in the run), the request
\* ends with a response that carries a transcript and a provider tag of
\* "agents-backend" or "fallback"; no error is ever its outcome.
C1_AlwaysUsableResponse ==
    /\ outcome # "error"
    /\ (pc = "idle" /\ requests > 0) => outcome = "response"
    /\ outcome = "response" =>
          /\ response.provider \in {"agents-backend", "fallback"}
          /\ response.transcript # <<>>
          /\ \A i \in 1..Len(response.transcript) : response.transcript[i] # ""

\* C1 witness: a transport error at thread creation, which leaves run() as an
\* unwrapped OpenAIError, ended in a fallback response.
C1_Witness ==
    /\ outcome = "response"
    /\ raised = "OpenAIError"
    /\ response.provider = "fallback"

\* C2: a run that reaches Completed has a conversation of exactly 5 entries,
\* whose last entry is the target role's, with each of the 5 fixed roles
\* appearing exactly once.
C2_CompletedConversation ==
    runState = "Completed" =>
        /\ Len(conversation) = 5
        /\ conversation[Len(conversation)].role = context.target_role
        /\ \A role \in AGENT_DEFINITIONS : Count(RolesOf(conversation), role) = 1

\* C2 witness: a completed run whose target is not the last support role.
C2_Witness ==
    /\ runState = "Completed"
    /\ context.target_role = "intel"
    /\ Len(conversation) = 5

\* C3: the role order is the support roles in their declared order without
\* the target, then the target, which so occurs once and last; the entries
\* of the conversation are appended in that order.
C3_SequenceOrder ==
    sequence # <<>> =>
        LET n == Len(sequence)
            target == context.target_role
        IN  /\ sequence[n] = target
            /\ \A i \in 1..(n - 1) : sequence[i] # target
            /\ {sequence[i] : i \in 1..(n - 1)} = AGENT_DEFINITIONS \ {target}
            /\ \A i \in 1..(n - 2) :
                  /\ SupportIndex(sequence[i]) > 0
                  /\ SupportIndex(sequence[i]) < SupportIndex(sequence[i + 1])
            /\ Len(conversation) <= n
            /\ \A i \in 1..Len(conversation) : conversation[i].role = sequence[i]
            /\ target = "captain" =>
                  sequence = <<"navigator", "intel", "engineer", "operations", "captain">>

\* C3 witness: for target captain, all five entries were appended.
C3_Witness ==
    /\ context.target_role = "captain"
    /\ RolesOf(conversation) =
           <<"navigator", "intel", "engineer", "operations", "captain">>

\* C4: a failed step ends the run at once: a remote operation that did not
\* succeed is the last one the run issues, it leaves the run Failed, the
\* operations only move forward (none is issued again for its step or for an
\* earlier one), and each role's turn is executed at most once.
C4_FailFast ==
    /\ \A i \in 1..(Len(remoteOps) - 1) : remoteOps[i].result \in SuccessResults
    /\ (remoteOps # <<>> /\ remoteOps[Len(remoteOps)].result \notin SuccessResults)
          => runState = "Failed"
    /\ runState = "Failed" => pc \in {"except", "log", "logging", "idle"}
    /\ \A i \in 1..(Len(remoteOps) - 1) :
          \/ remoteOps[i].step < remoteOps[i + 1].step
          \/ /\ remoteOps[i].step = remoteOps[i + 1].step
             /\ OpRank(remoteOps[i].op) < OpRank(remoteOps[i + 1].op)
    /\ LET turns == SelectSeq(remoteOps,
                              LAMBDA r : r.op = "runs.create_and_poll")
       IN  \A i, j \in 1..Len(turns) : i < j => turns[i].role # turns[j].role

\* C4 witness: the third step ended in a non-success status and the request
\* went on to answer.
C4_Witness ==
    /\ runState = "Failed"
    /\ outcome = "response"
    /\ remoteOps # <<>>
    /\ remoteOps[Len(remoteOps)].op = "runs.create_and_poll"
    /\ remoteOps[Len(remoteOps)].result = "failed"
    /\ remoteOps[Len(remoteOps)].step = 3

\* C5: after a run that failed, whatever it had produced, the response and
\* the log entry of the request are the FallbackSynthesizer result: provider
\* "fallback", an empty conversation record, and no produced content in the
\* transcript or the reasoning lines.
C5_FailedRunFallsBackWholesale ==
    (runState = "Failed" /\ outcome = "response") =>
        LET fallback == synthesise_fallback(context)
            entry == record[LoopThread]
        IN  /\ response.provider = "fallback"
            /\ response.conversation = <<>>
            /\ response.transcript = fallback.transcript
            /\ response.chain_of_thought = fallback.chain_of_thought
            /\ \A i \in 1..Len(conversation) :
                  /\ conversation[i].content # response.transcript
                  /\ \A j \in 1..Len(conversation[i].content) :
                        /\ Count(response.transcript, conversation[i].content[j]) = 0
                        /\ Count(response.chain_of_thought, conversation[i].content[j]) = 0
            /\ _ship_log_entries # <<>>
            /\ _ship_log_entries[Len(_ship_log_entries)] = entry
            /\ entry.id = response.log_entry_id
            /\ entry.provider = "fallback"
            /\ entry.conversation = <<>>
            /\ entry.transcript = fallback.transcript
            /\ entry.chain_of_thought = fallback.chain_of_thought

\* C5 witness: a run failed after two entries and the request answered.
C5_Witness ==
    /\ runState = "Failed"
    /\ outcome = "response"
    /\ Len(conversation) = 2

\* C6: when is_available() is false the Sequencer is skipped, the provider
\* tag is "fallback" and the reasoning chain has exactly 3 lines.
C6_UnavailableFallback ==
    ~available =>
        /\ runState = "NotStarted"
        /\ remoteOps = <<>>
        /\ outcome = "response" =>
              /\ response.provider = "fallback"
              /\ Len(response.chain_of_thought) = 3

\* C6 witness: an unavailable service and a finished request.
C6_Witness ==
    /\ ~available
    /\ outcome = "response"
    /\ Len(response.chain_of_thought) = 3

\* C7: the target role handed to the Sequencer is the requesting crew
\* member's role, and that role is sequenced last.
C7_TargetIsCrewRole ==
    sequence # <<>> =>
        /\ context.target_role = payload.crew_member.role
        /\ sequence[Len(sequence)] = payload.crew_member.role

\* C8: whatever the interleaving of appends and clears, what list, export
\* and narrate get from the log never holds more entries than the cap, nor
\* does the log whenever the lock is free.
C8_LogWithinCap ==
    /\ \A t \in Threads : Len(observed[t].entries) <= _MAX_LOG_ENTRIES
    /\ LockFree(_ship_log_lock) => Len(_ship_log_entries) <= _MAX_LOG_ENTRIES

\* C8 witness: a reader got a full log after the log had been filled past
\* the cap.
C8_Witness ==
    \E t \in PoolThreads :
        /\ observed[t].endpoint = "story"
        /\ Len(observed[t].entries) = _MAX_LOG_ENTRIES
        /\ Len(appended) > _MAX_LOG_ENTRIES

\* C9: after n appends since the last clear (or the start) the log holds
\* the min(n, cap) most recently appended entries in their order; one append
\* past the cap drops the oldest entry only.
C9_LogKeepsNewest ==
    LockFree(_ship_log_lock) =>
        /\ _ship_log_entries =
              LastN(appended, Min(Len(appended), _MAX_LOG_ENTRIES))
        /\ Len(appended) = _MAX_LOG_ENTRIES + 1 =>
              _ship_log_entries = Tail(appended)

\* C9 witness: one append past the cap is done and the oldest entry is gone.
C9_Witness ==
    /\ LockFree(_ship_log_lock)
    /\ Len(appended) = _MAX_LOG_ENTRIES + 1
    /\ Len(_ship_log_entries) = _MAX_LOG_ENTRIES
    /\ Count(_ship_log_entries, appended[1]) = 0
    /\ _ship_log_entries[1] = appended[2]

\* C10: an append is atomic: while one stands between its push and its trim
\* it holds the lock, no other append stands there and no reader has seen
\* the log; and with the appends since the last clear within the cap, each
\* appended entry is in the log exactly once.
C10_AppendAtomic ==
    /\ \A t \in Threads : lpc[t] = "pushed" => _ship_log_lock = t
    /\ Cardinality({t \in Threads : lpc[t] = "pushed"}) <= 1
    /\ \A t \in Threads : ~observed[t].torn
    /\ (LockFree(_ship_log_lock) /\ Len(appended) <= _MAX_LOG_ENTRIES) =>
          /\ Len(_ship_log_entries) = Len(appended)
          /\ \A i \in 1..Len(appended) : Count(_ship_log_entries, appended[i]) = 1

\* C10 witness: two callers appended concurrently, the one that called
\* later pushed first, and both entries are in the log.
C10_Witness ==
    /\ ~cleared
    /\ LockFree(_ship_log_lock)
    /\ Len(appended) = 2
    /\ appended[1].seq > appended[2].seq
    /\ \A t \in PoolThreads :
          lpc[t] = "done" /\ Count(_ship_log_entries, record[t]) = 1

\* What the reader t holds now: its own list, or the log's.
Seen(t) == IF observed[t].live THEN _ship_log_entries ELSE observed[t].entries

\* The identifiers of entries, in order.
IdsOf(entries) == [i \in 1..Len(entries) |-> entries[i].id]

\* C11: what list and export return is the log of the moment it was read, in
\* insertion order, and stays so whatever is appended or cleared later; a
\* read leaves the log as it was; the export's entry count is the number of
\* entries it holds; and an export and a listing with no append or clear
\* between them hold the same number of entries with the same identifiers in
\* the same order.
C11_SnapshotRoundTrip ==
    /\ [](\A t \in Threads :
            observed[t].endpoint # NoneVal =>
                /\ Seen(t) = LastN(observed[t].at.appended,
                                   Min(Len(observed[t].at.appended), _MAX_LOG_ENTRIES))
                /\ observed[t].endpoint = "download" =>
                       observed[t].entry_count = <<Len(Seen(t))>>
                /\ \A u \in Threads :
                       (/\ observed[t].endpoint = "download"
                        /\ observed[u].endpoint = "list"
                        /\ observed[u].at = observed[t].at) =>
                           /\ Len(Seen(u)) = observed[t].entry_count[1]
                           /\ IdsOf(Seen(u)) = IdsOf(Seen(t)))
    /\ [][(\E t \in Threads : /\ observed'[t] # observed[t]
                               /\ observed'[t].endpoint # NoneVal)
              => _ship_log_entries' = _ship_log_entries]_vars

\* C11 witness: an export of a full log and a listing with nothing between
\* them, taken after the oldest entry had been trimmed away.
C11_Witness ==
    /\ observed["t1"].endpoint = "download"
    /\ observed["t2"].endpoint = "list"
    /\ observed["t1"].at = observed["t2"].at
    /\ Len(observed["t1"].at.appended) > _MAX_LOG_ENTRIES
    /\ observed["t1"].entry_count = <<_MAX_LOG_ENTRIES>>
    /\ IdsOf(observed["t2"].entries) = IdsOf(observed["t1"].entries)

\* The place of the first x in seq, 0 when there is none.
IndexOf(seq, x) ==
    IF \E i \in 1..Len(seq) : seq[i] = x
    THEN CHOOSE i \in 1..Len(seq) : seq[i] = x /\ \A j \in 1..(i - 1) : seq[j] # x
    ELSE 0

\* C12: over all the requests of a process an identity is created at most
\* once per role: the cache holds exactly the identities created, a role
\* that is cached keeps its identity for good and no identity is created for
\* it again.
C12_IdentityCreatedOnce ==
    /\ [](/\ \A role \in AGENT_DEFINITIONS : Count(assistants, role) <= 1
          /\ DOMAIN _assistant_cache = {assistants[i] : i \in 1..Len(assistants)}
          /\ \A role \in DOMAIN _assistant_cache :
                _assistant_cache[role] = AssistantId(IndexOf(assistants, role)))
    /\ [][\A role \in DOMAIN _assistant_cache :
              /\ role \in DOMAIN _assistant_cache'
              /\ _assistant_cache'[role] = _assistant_cache[role]
              /\ Count(assistants', role) = Count(assistants, role)]_vars

\* C12 witness: a second request has run to its end on the identities the
\* first one created, creating none.
C12_Witness ==
    /\ requests = 2
    /\ runState = "Completed"
    /\ Len(assistants) = 5
    /\ \A i \in 1..Len(remoteOps) : remoteOps[i].op # "assistants.create"

\* Where create_crew_thought stands before it hands its response to
\* _log_crew_thought.
BeforeLogging ==
    {"unavailable", "run", "ensure", "message", "poll", "collect", "assemble",
     "except", "log"}

\* C13: a request appends to the ship log once, and only when its response
\* is final: while the run or the handler is still at work nothing of the
\* request is in the log, a finished request has put in exactly one entry,
\* the entry is the response that goes out, no remote operation is issued
\* once the append has begun, and a run that fails has appended nothing.
C13_AppendOnceAfterResult ==
    /\ [](/\ pc \in BeforeLogging => (calls = requests /\ Len(appended) = requests)
          /\ pc = "logging" => (calls = requests + 1 /\ Len(appended) <= requests + 1)
          /\ pc = "idle" => (calls = requests /\ Len(appended) = requests)
          /\ outcome = "response" =>
                /\ appended[Len(appended)].transcript = response.transcript
                /\ appended[Len(appended)].chain_of_thought = response.chain_of_thought
                /\ appended[Len(appended)].provider = response.provider
                /\ appended[Len(appended)].id = response.log_entry_id)
    /\ [][/\ Len(appended') > Len(appended) =>
                /\ Len(appended') = Len(appended) + 1
                /\ pc = "logging"
                /\ response.provider \in {"agents-backend", "fallback"}
                /\ response' = response
          /\ calls > requests => remoteOps' = remoteOps
          /\ (runState' = "Failed" /\ runState # "Failed") =>
                Len(appended) = requests]_vars

\* C13 witness: a run failed at its third step, and the one entry of the
\* request is the fallback that went out.
C13_Witness ==
    /\ requests = 1
    /\ outcome = "response"
    /\ runState = "Failed"
    /\ Len(remoteOps) > 8
    /\ Len(appended) = 1
    /\ appended[1].provider = "fallback"

\* The ids _record_ship_log_entry makes up.
GeneratedIds == {"log-" \o ToString(n) : n \in 1..(MaxAppends + MaxRequests)}

\* The loop thread's record is in the log history under the id given.
LoggedAs(id) ==
    \E i \in 1..Len(appended) :
        /\ appended[i].seq = record[LoopThread].seq
        /\ appended[i].metadata = CrewMetadata(payload)
        /\ appended[i].id = id

\* C14 as claimed: append keeps an id the caller supplied and generates one
\* only when the caller supplied none, and the log-entry identifier of a
\* crew-thought response is the id of the entry that request appended.
C14_KeepsSuppliedId ==
    /\ [](outcome = "response" => LoggedAs(response.log_entry_id))
    /\ [][\A p \in IdPayloads :
              AppendShipLog("t1", p) =>
                  IF p.id # NoneVal THEN record'["t1"].id = p.id
                  ELSE record'["t1"].id \in GeneratedIds]_vars

\* C14 amended: append keeps an id the caller supplied unless it is the
\* empty string, generates one when the caller supplied none or an empty
\* one, and the log-entry identifier of a crew-thought response is the id of
\* the entry that request appended.
C14_KeepsNonEmptyId ==
    /\ [](outcome = "response" =>
             /\ response.log_entry_id \in GeneratedIds
             /\ LoggedAs(response.log_entry_id))
    /\ [][\A p \in IdPayloads :
              AppendShipLog("t1", p) =>
                  IF p.id \notin {NoneVal, ""} THEN record'["t1"].id = p.id
                  ELSE record'["t1"].id \in GeneratedIds]_vars

\* C14 witness: a response went out with the id of its entry, while the log
\* took an entry under the id its caller gave and one whose caller gave an
\* empty id.
C14_Witness ==
    /\ outcome = "response"
    /\ LoggedAs(response.log_entry_id)
    /\ \E i, j \in 1..Len(appended) :
          /\ appended[i].id = "entry-a"
          /\ appended[j].author = "Ravi"
          /\ appended[j].id \in GeneratedIds

\* The entries of type crew or reflection, and those of them no other is
\* later than.
CrewUpdates(entries) ==
    { entries[i] : i \in { j \in 1..Len(entries) :
                              entries[j].type \in {"crew", "reflection"} } }

LatestUpdates(entries) ==
    { e \in CrewUpdates(entries) :
        \A other \in CrewUpdates(entries) : other.timestamp.secs <= e.timestamp.secs }

LastParagraph(story) == story[Len(story)]

\* The closing quote of an entry, set down on its own.
QuoteOf(entry) ==
    << "The journey closed with " \o entry.author \o "'s words: \""
       \o entry.transcript[1] \o "\"" >>

\* C15: the story of no entries is the fixed sentence; the story of a
\* snapshot with an entry of type crew or reflection ends with the quote of
\* the latest such entry, attributed to its author, and ends so in whatever
\* order the entries are passed in.
C15_StoryQuotesLatest ==
    returned # <<>> =>
        /\ args.entries = <<>> =>
              returned.story =
                  [raised |-> NoneVal,
                   story |-> << <<"No ship log entries were recorded for this voyage.">> >>]
        /\ CrewUpdates(args.entries) # {} =>
              /\ returned.story.raised = NoneVal
              /\ returned.reordered.raised = NoneVal
              /\ \E e \in LatestUpdates(args.entries) :
                    LastParagraph(returned.story.story) = QuoteOf(e)
              /\ LastParagraph(returned.reordered.story)
                    = LastParagraph(returned.story.story)

\* C16: format_heading gives the same label, displayed degrees and compass
\* point both, for a heading and for the heading any number of full turns
\* away, negative headings and headings above 360 included.
C16_HeadingPeriodic ==
    returned # <<>> => returned.turned = returned.label

\* -22.5 degrees and the heading two turns on are both "338° N".
C16_Witness ==
    /\ returned # <<>>
    /\ args.heading = -45
    /\ args.turns = 2
    /\ returned.label = [deg |-> "338", point |-> "N"]
    /\ returned.turned = [deg |-> "338", point |-> "N"]

\* The messages the execution of a step put into the thread, in the order
\* they were emitted.
EmittedBy(th, step) ==
    SelectSeq(th, LAMBDA m : m.run_id = RunId(step))

\* The lines of the text segments of messages, in order.
RECURSIVE SegmentLines(_)
SegmentLines(messages) ==
    IF messages = <<>> THEN <<>>
    ELSE LET content == Head(messages).content
             texts == SelectSeq(content, LAMBDA b : b.type = "text")
             Lines[i \in 0..Len(texts)] ==
                 IF i = 0 THEN <<>> ELSE Lines[i - 1] \o texts[i].text
         IN  Lines[Len(texts)] \o SegmentLines(Tail(messages))

\* The segments joined by newlines and trimmed, the placeholder if nothing
\* is left.
EmissionOrderText(th, step) ==
    LET text == StripText(SegmentLines(EmittedBy(th, step)))
    IN  IF text = <<>> THEN <<"No directive provided.">> ELSE text

\* C17: the content of the conversation entry of a step is the text segments
\* of the messages of that step's execution and of no other, joined in the
\* order they were emitted and trimmed, or "No directive provided." if that
\* is empty; no entry has empty content.
C17_ResponseInEmissionOrder ==
    \A i \in 1..Len(conversation) :
        /\ conversation[i].content = EmissionOrderText(thread, i)
        /\ conversation[i].content # <<>>

\* The prompts of the thread, oldest first, as their lines.
PromptsOf(th) ==
    LET users == SelectSeq(th, LAMBDA m : m.role = "user")
    IN  [j \in 1..Len(users) |-> users[j].content[1].text]

\* The part of a prompt between the empty line after the summary and the
\* empty line before the template.
PriorSection(prompt) ==
    LET first == CHOOSE k \in 1..Len(prompt) :
                     prompt[k] = "" /\ \A m \in 1..(k - 1) : prompt[m] # ""
    IN  SubSeq(prompt, first + 1, Len(prompt) - 2)

\* "{RoleTitleCase}: {content}" for each entry, as lines.
RECURSIVE RenderedEntries(_)
RenderedEntries(entries) ==
    IF entries = <<>> THEN <<>>
    ELSE LET content == Head(entries).content
             rendered == [k \in 1..Len(content) |->
                            IF k = 1 THEN Title(Head(entries).role) \o ": " \o content[1]
                            ELSE content[k]]
         IN  rendered \o RenderedEntries(Tail(entries))

\* The number of prompts among the first k messages of the thread.
PromptsUpTo(th, k) ==
    Cardinality({ m \in 1..k : th[m].role = "user" })

\* C18: the steps of a run do not overlap and each sees all earlier output:
\* the prompt of step i (counted from 0) comes after the entry of step i-1 was
\* appended and renders exactly the entries of steps 0..i-1 in order as
\* "{RoleTitleCase}: {content}", the prompt of step 0 has the line "No prior
\* agent inputs.", and the messages of an execution lie between the prompt of
\* their own step and the prompt of the next.
C18_PromptFromPriorEntries ==
    /\ \A j \in 1..Len(PromptsOf(thread)) :
          /\ Len(conversation) >= j - 1
          /\ PriorSection(PromptsOf(thread)[j]) =
                IF j = 1 THEN <<"No prior agent inputs.">>
                ELSE <<"Prior inputs:">>
                     \o RenderedEntries(SubSeq(conversation, 1, j - 1))
    /\ \A k \in 1..Len(thread) :
          thread[k].role # "user" =>
              thread[k].run_id = RunId(PromptsUpTo(thread, k))
    /\ pc \in {"message", "poll", "collect"} =>
          /\ Len(conversation) = stepIdx - 1
          /\ Len(PromptsOf(thread)) = IF pc = "message" THEN stepIdx - 1 ELSE stepIdx

\* The third step has its prompt in the thread, after an entry of several
\* lines and an entry put together from two messages.
C18_Witness ==
    /\ pc = "poll"
    /\ stepIdx = 3
    /\ Len(conversation) = 2
    /\ conversation[1].content = <<"Plan:", "  - hold depth", "   ", "Steer 047.">>
    /\ Len(conversation[2].content) = 2
    /\ PriorSection(PromptsOf(thread)[3]) =
          <<"Prior inputs:", "Navigator: Plan:", "  - hold depth", "   ",
            "Steer 047.", "Intel: Then second.", "First.">>

\* Every remote operation of the run so far went well.
AllRemoteOpsSucceeded ==
    \A k \in 1..Len(remoteOps) : remoteOps[k].result \in SuccessResults

\* C19: a run ends in Failed only when a step did not reach a successful
\* terminal state or the transport raised; for every request, if the remote
\* service is available and every remote operation of the run succeeded, the
\* run ends in Completed and the response carries the tag "agents-backend".
C19_FailedOnlyOnStepFailure ==
    /\ runState = "Failed" => ~AllRemoteOpsSucceeded
    /\ (outcome = "response" /\ available /\ AllRemoteOpsSucceeded) =>
          /\ runState = "Completed"
          /\ response.provider = "agents-backend"

\* The lines of the entries that Clean leaves something of, cleaned and
\* prefixed with the title-cased role, entry after entry.
PrefixedLines(conv, Clean(_)) ==
    LET LinesOf(entry) ==
            LET kept == SelectSeq(entry.content, LAMBDA l : Clean(l) # "")
            IN  [k \in 1..Len(kept) |-> Title(entry.role) \o ": " \o Clean(kept[k])]
        All[i \in 0..Len(conv)] ==
            IF i = 0 THEN <<>> ELSE All[i - 1] \o LinesOf(conv[i])
    IN  All[Len(conv)]

AsIs(line) == line

\* C20 as stated: for a response tagged "agents-backend" the transcript is
\* the content of the last conversation entry, the entry of the crew member's
\* role, and the reasoning lines are every non-empty line of every entry's
\* content, prefixed with "{RoleTitleCase}: ", in entry order and line order.
C20_ReasoningEveryNonEmptyLine ==
    response.provider = "agents-backend" =>
        /\ response.transcript = conversation[Len(conversation)].content
        /\ conversation[Len(conversation)].role = payload.crew_member.role
        /\ response.chain_of_thought = PrefixedLines(conversation, AsIs)

\* C20 amended: for a response tagged "agents-backend" the transcript is the
\* content of the last conversation entry, the entry of the role the run was
\* given as its target, and the reasoning lines are the lines of every
\* entry's content that are not empty once trimmed, each trimmed and prefixed
\* with "{RoleTitleCase}: ", in entry order and line order.
C20_ReasoningTrimmedLines ==
    response.provider = "agents-backend" =>
        /\ response.transcript = conversation[Len(conversation)].content
        /\ conversation[Len(conversation)].role = context.target_role
        /\ response.chain_of_thought = PrefixedLines(conversation, Strip)

\* A response of the remote run whose first entry has an indented line and a
\* line of white space.
C20_Witness ==
    /\ response.provider = "agents-backend"
    /\ outcome = "response"
    /\ conversation[1].content = <<"Plan:", "  - hold depth", "   ", "Steer 047.">>
    /\ SubSeq(response.chain_of_thought, 1, 3) =
          <<"Navigator: Plan:", "Navigator: - hold depth", "Navigator: Steer 047.">>
    /\ response.transcript = conversation[5].content

\* The assembler has been handed a conversation of no entries.
AssembledEmpty ==
    /\ runState = "Completed"
    /\ conversation = <<>>
    /\ pc # "assemble"

Polls == SelectSeq(remoteOps, LAMBDA op : op.op = "runs.create_and_poll")

RunEnded == runState \in {"Completed", "Failed"}

\* C22: a run that has started is never abandoned and always ends: as long
\* as every remote operation returns, it reaches Completed or Failed, having
\* executed at most one turn per role of its sequence, the k-th for the k-th
\* role, and the request it belongs to then returns a response.
C22_RunAlwaysEnds ==
    /\ [][runState = "Running" => runState' \in {"Running", "Completed", "Failed"}]_vars
    /\ [](/\ Len(Polls) <= Len(sequence)
          /\ \A k \in 1..Len(Polls) :
                Polls[k].step = k /\ Polls[k].role = sequence[k])
    /\ (runState = "Running") ~> RunEnded
    /\ (pc # "idle") ~> (pc = "idle" /\ outcome = "response")

\* A run that failed at the turn of its third role, and whose request has
\* returned.
C22_Witness ==
    /\ runState = "Failed"
    /\ Len(Polls) = 3
    /\ Polls[3].result = "failed"
    /\ outcome = "response"
    /\ pc = "idle"

\* The nearest integer to n/d (n >= 0, d > 0), a tie going up.
RoundHalfUp(n, d) == (2 * n + d) \div (2 * d)

\* The heading brought into [0, 360), in half degrees.
Normalized(h) == h % FullTurn

\* C23: for a present heading format_heading picks, of N, NE, E, SE, S, SW,
\* W, NW, the point with index round-half-up(degrees/45) mod 8 of the heading
\* normalized to [0, 360), so that a heading halfway between two points goes
\* to the next point clockwise.
C23_TieGoesClockwise ==
    returned # <<>> =>
        returned.label.point =
            Compass[(RoundHalfUp(Normalized(args.heading), 90) % Len(Compass)) + 1]

====
